---------------------------- MODULE Spec2Model ----------------------------
(***************************************************************************)
(* Question synthesis of the Spanish trainer: the Flask service            *)
(* (web_trainer.py: load_json, the per-category builders and api_question) *)
(* and the desktop trainer (vocab_trainer_gui.py: load_vocab, main and     *)
(* build_question).                                                        *)
(*                                                                         *)
(* Python values are modelled as follows.                                  *)
(*   - a list is a sequence; list indices in results stay 0-based, as in   *)
(*     the code, so options[i] of the code is options[i + 1] here;         *)
(*   - a sentence is a sequence of tokens, the blank marker '____' being   *)
(*     one token; the empty sequence is the missing or empty sentence;     *)
(*   - a missing dictionary key is the value Absent;                       *)
(*   - random.choice / random.shuffle are nondeterministic choices;        *)
(*   - a builder's outcome is either the dictionary it returns or the      *)
(*     exception it raises.                                                *)
(***************************************************************************)
EXTENDS Integers, Sequences, FiniteSets, TLC

\* ------------------------------------------------------------------ bounds

\* Longest item list of a category of the Item Store.
MaxItems == 2
\* Longest vocabulary list handed to the desktop trainer's build_question.
MaxVocab == 2
\* Nested make_vocab_question calls after which the interpreter raises
\* RecursionError (the interpreter's recursion limit, scaled down).
MaxDepth == 3
\* Answers the desktop trainer accepts before the model stops counting.
MaxChecks == 2

\* ------------------------------------------------------- program constants

\* range(100) of build_question
MaxAttempts == 100
\* num_options of build_question
NumOptions == 4
\* distract_pool[:3] of make_vocab_question
WebDistractors == 3

\* ------------------------------------------------------------ Python lists

Absent == "<absent>"
BlankMarker == "____"

Range(s) == {s[i] : i \in DOMAIN s}

\* x in seq
In(x, s) == \E i \in DOMAIN s : s[i] = x

\* seq.index(x), 0-based; only used when x in seq
Index(s, x) == (CHOOSE i \in DOMAIN s : s[i] = x /\ \A j \in 1..(i - 1) : s[j] # x) - 1

\* seq.count(x)
Count(s, x) == Cardinality({i \in DOMAIN s : s[i] = x})

\* sentence.count('____')
CountBlanks(sentence) == Count(sentence, BlankMarker)

\* every order random.shuffle can leave a list in
Orders(n) == {p \in [1..n -> 1..n] : \A i, j \in 1..n : i # j => p[i] # p[j]}
\* the orders of the short lists, worked out once (place n + 1 holds Orders(n))
OrdersUpTo4 ==
  <<{p : p \in Orders(0)}, {p : p \in Orders(1)}, {p : p \in Orders(2)},
    {p : p \in Orders(3)}, {p : p \in Orders(4)}>>
OrdersOf(n) == IF n <= 4 THEN OrdersUpTo4[n + 1] ELSE Orders(n)
\* the list s after a shuffle that moved s[p[i]] to place i
Shuffled(s, p) == [i \in 1..Len(s) |-> s[p[i]]]
Shuffles(s) == {Shuffled(s, p) : p \in OrdersOf(Len(s))}

\* sequences of length at most n over S
SeqUpTo(S, n) == UNION {[1..k -> S] : k \in 0..n}

\* truthiness of a string value read with .get(): None and '' are falsy
Truthy(v) == v # Absent /\ v # ""


\* -------------------------------------------------------- JSON number values

\* A JSON value found under 'correct_index': an integer n, a float (n is its
\* value in tenths, so 15 is 1.5), a non-numeric value (null, a word) or a
\* float too large for a double (1e999, which json.load reads as infinity).
Num(k, n) == [k |-> k, n |-> n]
NoNum == Num("none", 0)

\* int(v): truncation toward zero for a float, TypeError/ValueError for a
\* non-numeric value, OverflowError for infinity.
PyInt(v) ==
  CASE v.k = "int"   -> [exc |-> "", val |-> v.n]
    [] v.k = "float" -> [exc |-> "", val |-> IF v.n >= 0 THEN v.n \div 10 ELSE -((-v.n) \div 10)]
    [] v.k = "inf"   -> [exc |-> "OverflowError", val |-> 0]
    [] OTHER         -> [exc |-> "TypeError", val |-> 0]

\* ------------------------------------------------------------ cloze records

\* 'correct': missing, a string or a list of strings
NoCorrect == [k |-> "none", s |-> "", l |-> <<>>]
Str(s) == [k |-> "str", s |-> s, l |-> <<>>]
List(l) == [k |-> "list", s |-> "", l |-> l]

\* 'correct_index': missing, one JSON value or a list of JSON values
NoCi == [k |-> "absent", v |-> NoNum, l |-> <<>>]
Ci(v) == [k |-> "scalar", v |-> v, l |-> <<>>]
CiList(l) == [k |-> "list", v |-> NoNum, l |-> l]

\* one element of 'blanks'
Blank(options, correct, ci) ==
  [isdict |-> TRUE, options |-> options, correct |-> correct, ci |-> ci]
NotADictBlank == [isdict |-> FALSE, options |-> <<>>, correct |-> Absent, ci |-> NoCi]

OneBlank == <<"Voy", BlankMarker, "Madrid">>
TwoBlanks == <<"Trabajo", BlankMarker, "la", "escuela", BlankMarker, "dos", "horas">>

\* A record of a cloze category. options = <<>> stands for a missing, empty
\* or non-list 'options'; blanks = <<>> for a missing, empty or non-list
\* 'blanks'; question = <<>> and infinitive = "" for missing keys (verbs).
Rec(sentence, options, correct, ci) ==
  [isdict |-> TRUE, sentence |-> sentence, options |-> options, correct |-> correct,
   ci |-> ci, blanks |-> <<>>, question |-> <<>>, infinitive |-> ""]
NotADict == [Rec(<<>>, <<>>, NoCorrect, NoCi) EXCEPT !.isdict = FALSE]

GoodRec == Rec(OneBlank, <<"a", "b", "c">>, Str("b"), NoCi)

\* ------------------------------------------------------- builders' outcomes

\* What a builder hands back: the dictionary it returns (kind "question";
\* has_indices / has_blanks say whether the keys 'correct_indices' / 'blanks'
\* are in it) or the exception it raises (kind "raise"). answer is the
\* correct_answer local of the vocabulary builders; draws is what the random
\* source gave to the make_vocab_question call that returned the question:
\* the index random.choice picked and the orders of the two shuffles.
NoOutcome ==
  [kind |-> "none", question |-> <<>>, options |-> <<>>, correct_index |-> -1,
   has_indices |-> FALSE, correct_indices |-> <<>>, has_blanks |-> FALSE,
   blanks |-> <<>>, answer |-> Absent, exc |-> "", draws |-> <<>>]

Raise(exc) == [NoOutcome EXCEPT !.kind = "raise", !.exc = exc]

NoUsableItems == "ValueError(no usable items)"
CouldNotBuild == "RuntimeError(could not build a question)"

\* the record random.choice picked, when there was none to pick
NoRecord == NotADict

Picked(raw, out, called) == [raw |-> raw, out |-> out, called |-> called]

\* ------------------------------------------------ make_simple_mc_question

UsableSimple(it) == it.isdict /\ it.sentence # <<>> /\ it.options # <<>>

\* InRange with the upper test off by one (i <= len(options))
InRangeOffByOne(i, options) == 0 <= i /\ i <= Len(options)

\* 0 <= i < len(options)
InRange(i, options) == 0 <= i /\ i < Len(options)

\* Case 1: correct is a list of option texts
RECURSIVE Case1List(_, _, _)
Case1List(correct, options, acc) ==
  IF correct = <<>> THEN acc
  ELSE LET c == Head(correct)
           hit == In(c, options) /\ ~In(Index(options, c), acc)
       IN  Case1List(Tail(correct), options,
                     IF hit THEN Append(acc, Index(options, c)) ELSE acc)

\* Cases 1 and 2: the indices found from 'correct'
FromCorrect(raw) ==
  IF raw.correct.k = "list" THEN Case1List(raw.correct.l, raw.options, <<>>)
  ELSE IF raw.correct.k = "str" /\ In(raw.correct.s, raw.options)
       THEN <<Index(raw.options, raw.correct.s)>>
  ELSE <<>>

\* Case 3, a list under 'correct_index': [exc, val]. TypeError and ValueError
\* are swallowed by the except clause, OverflowError is not.
RECURSIVE Case3List(_, _, _)
Case3List(l, options, acc) ==
  IF l = <<>> THEN [exc |-> "", val |-> acc]
  ELSE LET r == PyInt(Head(l))
       IN  IF r.exc = "OverflowError" THEN [exc |-> r.exc, val |-> acc]
           ELSE IF r.exc = "" /\ InRange(r.val, options) /\ ~In(r.val, acc)
                THEN Case3List(Tail(l), options, Append(acc, r.val))
           ELSE Case3List(Tail(l), options, acc)

\* Case 3: the numeric fallback, tried only when 'correct' gave nothing
FromCorrectIndex(raw, found) ==
  IF found # <<>> \/ raw.ci.k = "absent" THEN [exc |-> "", val |-> found]
  ELSE IF raw.ci.k = "list" THEN Case3List(raw.ci.l, raw.options, found)
  ELSE LET r == PyInt(raw.ci.v)
       IN  IF r.exc = "OverflowError" THEN [exc |-> r.exc, val |-> found]
           ELSE IF r.exc = "" /\ InRange(r.val, raw.options)
                THEN [exc |-> "", val |-> Append(found, r.val)]
           ELSE [exc |-> "", val |-> found]

\* Case 4: ultimate fallback, the first option
FirstOptionFallback(indices) == IF indices = <<>> THEN <<0>> ELSE indices

\* the body of make_simple_mc_question after random.choice picked raw
SimpleMcOf(raw) ==
  LET r == FromCorrectIndex(raw, FromCorrect(raw))
      correct_indices == FirstOptionFallback(r.val)
  IN  IF r.exc # "" THEN Raise(r.exc)
      ELSE [NoOutcome EXCEPT !.kind = "question", !.question = raw.sentence,
                             !.options = raw.options,
                             !.correct_index = correct_indices[1],
                             !.has_indices = TRUE,
                             !.correct_indices = correct_indices]

\* make_simple_mc_question without its "if not usable: raise ValueError":
\* random.choice([]) raises IndexError
make_simple_mc_question_unguarded(items) ==
  LET usable == SelectSeq(items, UsableSimple)
      me == <<"make_simple_mc_question">>
  IN  IF usable = <<>> THEN {Picked(NoRecord, Raise("IndexError"), me)}
      ELSE {Picked(usable[i], SimpleMcOf(usable[i]), me) : i \in DOMAIN usable}

\* every (picked record, outcome) a call can end with
make_simple_mc_question(items) ==
  LET usable == SelectSeq(items, UsableSimple)
      me == <<"make_simple_mc_question">>
  IN  IF usable = <<>> THEN {Picked(NoRecord, Raise(NoUsableItems), me)}
      ELSE {Picked(usable[i], SimpleMcOf(usable[i]), me) : i \in DOMAIN usable}

\* ---------------------------------------------------- make_verbs_question

UsableVerb(it) ==
  it.isdict /\ (it.question # <<>> \/ it.infinitive # "") /\ it.options # <<>>

\* correct in options, for a 'correct' of any shape against string options
CorrectInOptions(raw) == raw.correct.k = "str" /\ In(raw.correct.s, raw.options)

\* correct_index of the builders that keep one index
SingleIndex(raw) ==
  IF CorrectInOptions(raw) THEN Index(raw.options, raw.correct.s) ELSE 0

VerbOf(raw) ==
  [NoOutcome EXCEPT !.kind = "question",
                    !.question = IF raw.question # <<>> THEN raw.question
                                 ELSE <<"Conjuga", raw.infinitive>>,
                    !.options = raw.options,
                    !.correct_index = SingleIndex(raw)]

make_verbs_question(items) ==
  LET usable == SelectSeq(items, UsableVerb)
      me == <<"make_verbs_question">>
  IN  IF usable = <<>> THEN {Picked(NoRecord, Raise(NoUsableItems), me)}
      ELSE {Picked(usable[i], VerbOf(usable[i]), me) : i \in DOMAIN usable}

\* -------------------------------------------- make_context_vocab_question

ContextOf(raw) ==
  [NoOutcome EXCEPT !.kind = "question", !.question = raw.sentence,
                    !.options = raw.options,
                    !.correct_index = SingleIndex(raw)]

make_context_vocab_question(items) ==
  LET usable == SelectSeq(items, UsableSimple)
      me == <<"make_context_vocab_question">>
  IN  IF usable = <<>> THEN {Picked(NoRecord, Raise(NoUsableItems), me)}
      ELSE {Picked(usable[i], ContextOf(usable[i]), me) : i \in DOMAIN usable}

\* ------------------------------------ make_preposition_contrast_question

IsDict(it) == it.isdict

\* opts = b.get("options") or raw.get("options") or []
BlankOptions(b, raw) == IF b.options # <<>> THEN b.options ELSE raw.options

\* the ci of one blank: a numeric 'correct_index' of type int is taken first
\* (0 when out of range), else the position of 'correct', else 0
BlankIndex(b, opts) ==
  IF b.ci.k = "scalar" /\ b.ci.v.k = "int"
  THEN (IF InRange(b.ci.v.n, opts) THEN b.ci.v.n ELSE 0)
  ELSE IF In(b.correct, opts) THEN Index(opts, b.correct) ELSE 0

\* BlanksPayload that walks raw["blanks"] from its last element to its first
BlanksPayloadBackwards(blanks, raw) ==
  LET n == Len(blanks)
      kept == SelectSeq([k \in 1..n |-> blanks[n + 1 - k]],
                        LAMBDA b : b.isdict /\ BlankOptions(b, raw) # <<>>)
  IN  [k \in 1..Len(kept) |->
         [options |-> BlankOptions(kept[k], raw),
          correct_index |-> BlankIndex(kept[k], BlankOptions(kept[k], raw))]]

\* the loop over raw["blanks"]
RECURSIVE BlanksPayload(_, _)
BlanksPayload(blanks, raw) ==
  IF blanks = <<>> THEN <<>>
  ELSE LET b == Head(blanks)
           opts == BlankOptions(b, raw)
           rest == BlanksPayload(Tail(blanks), raw)
       IN  IF ~b.isdict \/ opts = <<>> THEN rest
           ELSE <<[options |-> opts, correct_index |-> BlankIndex(b, opts)]>> \o rest

MultiOf(raw) ==
  [NoOutcome EXCEPT !.kind = "question", !.question = raw.sentence,
                    !.has_blanks = TRUE,
                    !.blanks = BlanksPayload(raw.blanks, raw)]

\* raw has a non-empty 'blanks' that yields a non-empty payload
TakesMultiPath(raw) == raw.blanks # <<>> /\ BlanksPayload(raw.blanks, raw) # <<>>

make_preposition_contrast_question(items) ==
  LET usable == SelectSeq(items, IsDict)
      me == <<"make_preposition_contrast_question">>
  IN  IF usable = <<>> THEN {Picked(NoRecord, Raise(NoUsableItems), me)}
      ELSE UNION {
             IF TakesMultiPath(usable[i])
             THEN {Picked(usable[i], MultiOf(usable[i]), me)}
             ELSE {Picked(p.raw, p.out, me \o p.called) :
                     p \in make_simple_mc_question(items)}
             : i \in DOMAIN usable}

\* -------------------------------------------------------- vocabulary entries

Entry(es, en, ru) == [isdict |-> TRUE, es |-> es, en |-> en, ru |-> ru]
NotADictEntry == [Entry(Absent, Absent, Absent) EXCEPT !.isdict = FALSE]

\* entry.get(key, "")
GetOrEmpty(entry, key) == IF entry[key] = Absent THEN "" ELSE entry[key]

\* some 1-1 listing of a finite set
SetToSeq(S) == CHOOSE s \in [1..Cardinality(S) -> S] : Range(s) = S

\* list(S) of a set of strings: the order follows the strings' hashes, which
\* the interpreter salts anew at each start; every listing can come out
HashOrders(S) == Shuffles(SetToSeq(S))

\* s[:n]
Take(s, n) == SubSeq(s, 1, IF Len(s) < n THEN Len(s) ELSE n)

\* ---------------------------------------------------- make_vocab_question

\* random.shuffle(x) reorders the list x is bound to. What it does to the
\* list `items` of the caller: nothing when x is bound to a list the call
\* made ("fresh"), a reordering when x is bound to `items` itself.
ShuffleInPlace(items, binding) == IF binding = "items" THEN Shuffles(items) ELSE {items}

\* distract_pool bound to the module-level list
DistractPoolIsItems == "items"

\* distract_pool is bound to list({...}) when it is shuffled
DistractPoolBinding == "fresh"

UsableVocab(it) == it.isdict /\ Truthy(it.es) /\ (Truthy(it.en) \/ Truthy(it.ru))

\* the if/elif chain on direction: the key of the prompt and of the target
DirectionFields(direction) ==
  CASE direction = "en_es" -> [prompt |-> "en", target |-> "es"]
    [] direction = "es_ru" -> [prompt |-> "es", target |-> "ru"]
    [] direction = "ru_es" -> [prompt |-> "ru", target |-> "es"]
    [] OTHER               -> [prompt |-> "es", target |-> "en"]

LangTag(key) == CASE key = "es" -> "ES" [] key = "en" -> "EN" [] OTHER -> "RU"

\* DistractPool without the test d != correct_answer
DistractPoolKeepsAnswer(usable, i, target, correct_answer) ==
  {usable[j][target] : j \in {k \in DOMAIN usable : k # i /\ Truthy(usable[k][target])}}

\* the set comprehension that cleans distract_pool
DistractPool(usable, i, target, correct_answer) ==
  {usable[j][target] : j \in {k \in DOMAIN usable : k # i /\ Truthy(usable[k][target])}}
    \ {correct_answer}

\* the options built from list(set) = listed, when the first shuffle gives
\* order p1 and the second p2
OptionsFor(listed, p1, p2, correct_answer) ==
  Shuffled(<<correct_answer>> \o Take(Shuffled(listed, p1), WebDistractors), p2)

\* the question make_vocab_question returns for the pick usable[i], the
\* listing of the distractor set and the two shuffle orders
VocabRun(usable, i, direction, listed, p1, p2) ==
  LET item == usable[i]
      f == DirectionFields(direction)
      correct_answer == GetOrEmpty(item, f.target)
      options == OptionsFor(listed, p1, p2, correct_answer)
  IN  [NoOutcome EXCEPT
         !.kind = "question",
         !.question = <<"Traduce", LangTag(f.prompt), LangTag(f.target), item[f.prompt]>>,
         !.options = options,
         !.correct_index = Index(options, correct_answer),
         !.answer = correct_answer,
         !.draws = <<i, p1, p2>>]

\* One call of make_vocab_question after random.choice picked usable[i]:
\* KeyError from item[...], the retry (kind "retry"), or the questions.
VocabOf(usable, i, direction) ==
  LET item == usable[i]
      f == DirectionFields(direction)
      correct_answer == GetOrEmpty(item, f.target)
      pool == DistractPool(usable, i, f.target, correct_answer)
      n == Cardinality(pool)
      m == 1 + (IF n < WebDistractors THEN n ELSE WebDistractors)
  IN  IF item[f.prompt] = Absent THEN {Raise("KeyError")}
      ELSE IF item[f.prompt] = "" \/ correct_answer = ""
           THEN {[NoOutcome EXCEPT !.kind = "retry"]}
      ELSE {VocabRun(usable, i, direction, listed, p1, p2) :
              listed \in HashOrders(pool), p1 \in OrdersOf(n), p2 \in OrdersOf(m)}

make_vocab_question(items, direction) ==
  LET usable == SelectSeq(items, UsableVocab)
      me == <<"make_vocab_question">>
  IN  IF usable = <<>> THEN {Picked(NoRecord, Raise(NoUsableItems), me)}
      ELSE UNION {{Picked(usable[i], out, me) : out \in VocabOf(usable, i, direction)} :
                    i \in DOMAIN usable}

\* ------------------------------------------- desktop trainer: build_question

\* candidates is bound to a list comprehension over vocab when it is shuffled
CandidatesBinding == "fresh"

\* keys of LANG_NAMES, in order
Langs == <<"es", "en", "ru">>

LangName(key) ==
  CASE key = "es" -> "Spanish" [] key = "en" -> "English" [] OTHER -> "Russian"

\* the languages whose value is non-empty after strip()
get_available_languages(entry) ==
  SelectSeq(Langs, LAMBDA lang : GetOrEmpty(entry, lang) # "")

NonePair == [source |-> Absent, target |-> Absent]

\* the fixed-direction table
Mapping(mode) ==
  CASE mode = "es-en" -> [source |-> "es", target |-> "en"]
    [] mode = "es-ru" -> [source |-> "es", target |-> "ru"]
    [] mode = "en-es" -> [source |-> "en", target |-> "es"]
    [] mode = "ru-es" -> [source |-> "ru", target |-> "es"]
    [] OTHER          -> NonePair

\* every pair choose_source_target can return
choose_source_target(entry, mode) ==
  LET langs == get_available_languages(entry)
      st == Mapping(mode)
  IN  IF Len(langs) < 2 THEN {NonePair}
      ELSE IF mode = "mixed"
           THEN {[source |-> s, target |-> t] : s, t \in Range(langs)}
                  \ {[source |-> s, target |-> s] : s \in Range(langs)}
      ELSE IF In(st.source, langs) /\ In(st.target, langs) /\ st.source # st.target
           THEN {st}
      ELSE {NonePair}

\* the values of the candidates, in list order
Candidates(vocab, i, target) ==
  LET idx == SelectSeq([k \in 1..Len(vocab) |-> k],
                       LAMBDA k : k # i /\ GetOrEmpty(vocab[k], target) # "")
  IN  [k \in 1..Len(idx) |-> vocab[idx[k]][target]]

\* the for loop over the shuffled candidates
RECURSIVE FirstDistractors(_, _, _)
FirstDistractors(cands, correct_answer, distractors) ==
  IF cands = <<>> \/ Len(distractors) >= NumOptions - 1 THEN distractors
  ELSE LET cand == Head(cands)
       IN  FirstDistractors(Tail(cands), correct_answer,
             IF cand # correct_answer /\ ~In(cand, distractors)
             THEN Append(distractors, cand) ELSE distractors)

\* the tuple build_question returns, for every order the last shuffle gives
BuiltQuestions(entry, st, distractors) ==
  LET correct_answer == entry[st.target]
  IN  {[NoOutcome EXCEPT
          !.kind = "question",
          !.question = <<"Translate", LangName(st.source), LangName(st.target), entry[st.source]>>,
          !.options = options,
          !.correct_index = Index(options, correct_answer),
          !.answer = correct_answer] :
        options \in Shuffles(<<correct_answer>> \o Take(distractors, NumOptions - 1))}

\* build_question never returns: the while loop has no pick that ends it
Hang == [NoOutcome EXCEPT !.kind = "hang"]

\* The while loop and the rest of build_question, from the distractors d the
\* for loop over the candidates left: KeyError when a drawn entry has no
\* target key, every way of filling d up to NumOptions - 1 with drawn values
\* other than the correct answer, no return when there is no such value.
FillResults(vocab, i, st, d) ==
  LET entry == vocab[i]
      drawn == {vocab[j][st.target] : j \in DOMAIN vocab}
      fills == drawn \ {entry[st.target], Absent}
      need == NumOptions - 1 - Len(d)
  IN  IF need <= 0 THEN BuiltQuestions(entry, st, d)
      ELSE (IF Absent \in drawn THEN {Raise("KeyError")} ELSE {})
             \cup (IF fills = {} /\ Absent \notin drawn THEN {Hang} ELSE {})
             \cup UNION {BuiltQuestions(entry, st, d \o s) : s \in [1..need -> fills]}

\* Everything a call build_question(vocab, mode) can end with: a question
\* for a pick that has a source and a target, RuntimeError when MaxAttempts
\* picks in a row can have none, and what the while loop adds.
build_question(vocab, mode) ==
  LET picks == UNION {{<<i, st>> : st \in choose_source_target(vocab[i], mode)} :
                        i \in DOMAIN vocab}
      OfPick(q) ==
        UNION {FillResults(vocab, q[1], q[2],
                           FirstDistractors(cands, vocab[q[1]][q[2].target], <<>>)) :
                 cands \in Shuffles(Candidates(vocab, q[1], q[2].target))}
  IN  (IF \E q \in picks : q[2] = NonePair THEN {Raise(CouldNotBuild)} ELSE {})
        \cup UNION {OfPick(q) : q \in {r \in picks : r[2] # NonePair}}

\* -------------------------------------------- desktop trainer: VocabTrainerApp

\* The fields of VocabTrainerApp after __init__ has set them (correct_index
\* None is -1) and the state of the Check button. Four more fields keep
\* what has happened: checks counts the answers accepted for the displayed
\* question, last_idx and last_gain are the index of the latest accepted
\* answer and what it added to score, failed tells that a next_question
\* call has ended in its except clause.
FreshApp ==
  [score |-> 0, total |-> 0, current_options |-> <<>>, correct_index |-> -1,
   selected_option |-> -1, check_button |-> "normal",
   checks |-> 0, last_idx |-> -1, last_gain |-> 0, failed |-> FALSE]

\* next_question, given what build_question ended with: the except clause
\* shows the error and returns
next_question(a, out) ==
  LET cleared == [a EXCEPT !.selected_option = -1]
  IN  IF out.kind = "hang" THEN cleared
      ELSE IF out.kind # "question" THEN [cleared EXCEPT !.failed = TRUE]
      ELSE [cleared EXCEPT !.current_options = out.options,
                           !.correct_index = out.correct_index,
                           !.check_button = "normal",
                           !.checks = 0, !.last_idx = -1, !.last_gain = 0]

\* check_answer that leaves the Check button as it is
check_answer_keeps_button(a) ==
  LET idx == a.selected_option
      gain == IF idx = a.correct_index THEN 1 ELSE 0
  IN  IF idx < 0 \/ idx >= Len(a.current_options) THEN a
      ELSE [a EXCEPT !.total = @ + 1, !.score = @ + gain,
                     !.checks = @ + 1, !.last_idx = idx, !.last_gain = gain]

\* check_answer: a selection outside current_options is turned down; else
\* total and, for the correct index, score go up and the button is disabled.
\* Reading current_options[correct_index] for the feedback of a wrong answer
\* raises when correct_index is no index, and the handler ends there.
check_answer(a) ==
  LET idx == a.selected_option
      gain == IF idx = a.correct_index THEN 1 ELSE 0
      raises == gain = 0 /\ ~InRange(a.correct_index, a.current_options)
  IN  IF idx < 0 \/ idx >= Len(a.current_options) THEN a
      ELSE [a EXCEPT !.total = @ + 1, !.score = @ + gain,
                     !.check_button = IF raises THEN @ ELSE "disabled",
                     !.checks = @ + 1, !.last_idx = idx, !.last_gain = gain]

\* ------------------------------------------------------ the records modelled

abc == <<"a", "b", "c">>

\* 'correct' is not among the options, and there is no 'correct_index'
AbsentCorrect == Rec(OneBlank, abc, Str("z"), NoCi)
\* comparisons: several correct forms
ListCorrect == Rec(OneBlank, <<"a", "b", "c", "d">>, List(<<"c", "a">>), NoCi)
\* a list with a repeated member and a member that is no option
ListSloppy == Rec(OneBlank, abc, List(<<"b", "z", "b">>), NoCi)
\* only 'correct_index', as the float 1.5
IndexOnly == Rec(OneBlank, abc, NoCorrect, Ci(Num("float", 15)))
\* 'correct_index': [3, 2, null, 2.5, -1, 0]
IndexList ==
  Rec(OneBlank, abc, NoCorrect,
      CiList(<<Num("int", 3), Num("int", 2), NoNum, Num("float", 25),
               Num("int", -1), Num("int", 0)>>))
\* 'correct_index': 1e999
IndexInf == Rec(OneBlank, abc, Str("z"), Ci(Num("inf", 0)))
\* both 'correct' (an option) and 'correct_index' (another one)
BothFields == Rec(OneBlank, abc, Str("b"), Ci(Num("int", 0)))
DupOptions == Rec(OneBlank, <<"a", "a", "b">>, Str("a"), NoCi)
TwoOptions == Rec(OneBlank, <<"a", "b">>, Str("a"), NoCi)
SixOptions == Rec(OneBlank, <<"a", "b", "c", "d", "e", "f">>, Str("f"), NoCi)
NoSentence == Rec(<<>>, abc, Str("a"), NoCi)
NoOptions == Rec(OneBlank, <<>>, Str("a"), NoCi)

FullFamily ==
  {GoodRec, AbsentCorrect, ListCorrect, ListSloppy, IndexOnly, IndexList,
   IndexInf, BothFields, DupOptions, TwoOptions, SixOptions, NoSentence,
   NoOptions, NotADict}

SmallFamily == {GoodRec, AbsentCorrect, BothFields, NoSentence}

\* verbs
Verb(question, infinitive, correct) ==
  [Rec(<<>>, abc, correct, NoCi) EXCEPT !.question = question, !.infinitive = infinitive]
GoodVerb == Verb(<<"Conjuga", "pensar">>, "", Str("b"))
VerbFamily ==
  {GoodVerb, Verb(<<>>, "hablar", Str("c")), Verb(<<"Conjuga", "ir">>, "", Str("z")),
   Verb(<<>>, "ser", List(<<"b">>)), Verb(<<>>, "", Str("a"))}

ContextFamily == {GoodRec, AbsentCorrect, ListCorrect, NoSentence, NotADict}

\* preposition contrast
Multi(sentence, blanks) ==
  [Rec(sentence, <<>>, NoCorrect, NoCi) EXCEPT !.blanks = blanks]
ParaBlank == Blank(<<"para", "por", "con", "sin">>, "para", NoCi)
PorBlank == Blank(<<"por", "para", "en", "sin">>, "por", NoCi)
\* scenario 2 of the specification
Scenario2 == Multi(TwoBlanks, <<ParaBlank, PorBlank>>)
\* two markers, one spec; one marker, two specs
OneSpecTwoMarkers == Multi(TwoBlanks, <<ParaBlank>>)
TwoSpecsOneMarker == Multi(OneBlank, <<ParaBlank, PorBlank>>)
\* two markers, two entries of 'blanks', one of them not a dictionary
SkippedSpec == Multi(TwoBlanks, <<NotADictBlank, PorBlank>>)
BlankAbsentCorrect == Multi(OneBlank, <<Blank(abc, "z", NoCi)>>)
BlankBothFields == Multi(OneBlank, <<Blank(abc, "b", Ci(Num("int", 0)))>>)
BlankIndexOut == Multi(OneBlank, <<Blank(abc, "b", Ci(Num("int", 3)))>>)
\* a blank without options takes the record's own
BlankInherits ==
  [Rec(OneBlank, abc, NoCorrect, NoCi) EXCEPT !.blanks = <<Blank(<<>>, "c", NoCi)>>]
\* 'blanks' that yields no payload, beside legacy top-level fields
BlanksUnusable == [GoodRec EXCEPT !.blanks = <<NotADictBlank>>]
MultiNoSentence == Multi(<<>>, <<ParaBlank>>)

ContrastFamily ==
  {Scenario2, OneSpecTwoMarkers, TwoSpecsOneMarker, SkippedSpec, BlankAbsentCorrect,
   BlankBothFields, BlankIndexOut, BlankInherits, BlanksUnusable, MultiNoSentence,
   GoodRec, NotADict}

\* vocabulary
Perro == Entry("perro", "dog", "sobaka")
Gato == Entry("gato", "cat", "koshka")
\* same English gloss as Perro
Can == Entry("can", "dog", "pes")
\* no 'en' key; an empty 'en'; no 'ru' key; no 'es'; one language only
NoEn == Entry("casa", Absent, "dom")
EmptyEn == Entry("mesa", "", "stol")
NoRu == Entry("sol", "sun", Absent)
NoEs == Entry("", "sea", "more")
OnlyEs == Entry("luna", Absent, Absent)

WebVocabFamily == {Perro, Gato, Can, NoEn, EmptyEn, NoRu, NoEs, NotADictEntry}
\* a vocabulary of three well-formed entries
Pez == Entry("pez", "fish", "ryba")
Corpus == <<Perro, Gato, Pez>>
GuiVocabFamily == {Perro, Gato, Can, NoEn, OnlyEs}

\* ------------------------------------------------------------ the Item Store

\* the module-level lists of web_trainer.py, by mode
Categories ==
  {"vocab", "prepositions", "preposition_contrast", "verbs", "future",
   "reflexive", "context_vocab", "pronouns", "comparisons"}

Family(c) ==
  CASE c = "vocab" -> WebVocabFamily
    [] c = "verbs" -> VerbFamily
    [] c = "context_vocab" -> ContextFamily
    [] c = "preposition_contrast" -> ContrastFamily
    [] c = "comparisons" -> FullFamily
    [] OTHER -> SmallFamily

\* the lists of a data directory whose every file holds one well-formed record
DefaultStore ==
  [c \in Categories |->
     CASE c = "vocab" -> <<Perro>>
       [] c = "verbs" -> <<GoodVerb>>
       [] c = "preposition_contrast" -> <<Scenario2>>
       [] OTHER -> <<GoodRec>>]

\* ------------------------------------------------------------ the data files

\* A file of data/: missing (open raises FileNotFoundError), unreadable
\* (open raises PermissionError), invalid (json.load raises JSONDecodeError),
\* notalist (a JSON object) or a JSON list of items.
File(kind, items) == [kind |-> kind, items |-> items]
BadKinds == {"missing", "unreadable", "invalid", "notalist"}

Loaded(exc, val) == [exc |-> exc, val |-> val]

\* load_json that catches FileNotFoundError only
load_json_uncaught(file) ==
  CASE file.kind = "list"       -> Loaded("", file.items)
    [] file.kind = "notalist"   -> Loaded("", <<>>)
    [] file.kind = "missing"    -> Loaded("", <<>>)
    [] file.kind = "unreadable" -> Loaded("PermissionError", <<>>)
    [] OTHER                    -> Loaded("JSONDecodeError", <<>>)

\* load_json: the list of the file, [] for a file that holds no list, []
\* from the two except clauses
load_json(file) ==
  CASE file.kind = "list"     -> Loaded("", file.items)
    [] file.kind = "notalist" -> Loaded("", <<>>)
    [] file.kind = "missing"  -> Loaded("", <<>>)
    [] OTHER                  -> Loaded("", <<>>)

\* str.strip() on the values met here
Strip(s) ==
  CASE s = " lobo " -> "lobo"
    [] s = "  "     -> ""
    [] OTHER        -> s

\* item.get(key, "").strip()
Stripped(item, key) == Strip(GetOrEmpty(item, key))

\* the loop of load_vocab: the entries kept, rebuilt from stripped values
Clean(data) ==
  LET kept == SelectSeq(data, LAMBDA item :
                /\ item.isdict
                /\ Stripped(item, "es") # ""
                /\ Stripped(item, "en") # ""
                /\ Stripped(item, "ru") # "")
  IN  [k \in 1..Len(kept) |->
         Entry(Stripped(kept[k], "es"), Stripped(kept[k], "en"), Stripped(kept[k], "ru"))]

NoValidEntries == "ValueError(no valid vocab entries)"

\* load_vocab: nothing is caught; iterating a JSON object gives its keys,
\* none of which is a dictionary
load_vocab(file) ==
  CASE file.kind = "missing"    -> Loaded("FileNotFoundError", <<>>)
    [] file.kind = "unreadable" -> Loaded("PermissionError", <<>>)
    [] file.kind = "invalid"    -> Loaded("JSONDecodeError", <<>>)
    [] file.kind = "notalist"   -> Loaded(NoValidEntries, <<>>)
    [] OTHER -> IF Clean(file.items) = <<>> THEN Loaded(NoValidEntries, <<>>)
                ELSE Loaded("", Clean(file.items))

\* the files of a category: every list over its family, and the bad ones
FilesOf(family, n) ==
  {File("list", items) : items \in SeqUpTo(family, n)} \cup {File(k, <<>>) : k \in BadKinds}

DefaultFiles == [c \in Categories |-> File("list", DefaultStore[c])]

\* The data directories modelled: the file of one category is any file,
\* the others hold their well-formed record. No builder reads another
\* category's list.
WebFiles ==
  UNION {{[DefaultFiles EXCEPT ![c] = f] : f \in FilesOf(Family(c), MaxItems)} :
           c \in Categories}
    \cup {[DefaultFiles EXCEPT !["vocab"] = File("list", Corpus)]}

\* vocab.json of the desktop trainer: a padded entry, an entry whose 'en'
\* is blank, an element that is no dictionary
Lobo == Entry(" lobo ", "wolf", "volk")
BlankEn == Entry("mesa", "  ", "stol")
\* The files tried: the bad ones, lists that leave no entry, lists that
\* leave one entry, and lists that leave two entries with different words.
AppLists ==
  {<<>>, <<BlankEn>>, <<NotADictEntry, BlankEn>>, <<Perro>>, <<NotADictEntry, Lobo>>,
   <<Lobo, BlankEn, Perro>>}
AppFiles ==
  {[vocab |-> File("list", items)] : items \in AppLists}
    \cup {[vocab |-> File(k, <<>>)] : k \in BadKinds}

\* VocabTrainerApp built on a list that did not come from load_vocab: an
\* element without .get, an entry with no 'ru' key, an entry of one language
TrainerVocabs == {<<NotADictEntry>>, <<Perro, NoRu>>, <<Gato, OnlyEs>>}

\* build_question called on its own is handed any non-empty list
GuiVocabs == SeqUpTo(GuiVocabFamily, MaxVocab) \ {<<>>}

\* the modes of the OptionMenu of the desktop trainer
AppModes == {"mixed", "es-en", "es-ru", "en-es", "ru-es"}

\* --------------------------------------------------------------------- state

VARIABLES
  prog,       \* which program runs: "web" (web_trainer.py), "app" (main of
              \* vocab_trainer_gui.py), "trainer" (VocabTrainerApp built on
              \* its own) or "gui" (build_question called on its own)
  files,      \* the data files the program found at its start
  store,      \* web: the module-level item lists, by mode
  vocab,      \* gui: the vocab argument of build_question; app, trainer: self.vocab
  pc,         \* "idle", "vocab" (inside make_vocab_question), "for" and "fill"
              \* (the two loops of build_question), "done", "crashed", "exited"
              \* (the program ended at its start), "hung" (the trainer is in
              \* a build_question call that never returns)
  req,        \* the request being served: mode and direction
  direction,  \* web: the argument of the running make_vocab_question call
  depth,      \* web: how many make_vocab_question calls are nested in the running one
  attempts,   \* gui: iterations of the for loop that ended in continue
  frame,      \* gui: entry, source, target and distractors of the accepted pick
  status,     \* web: HTTP status of the response, 0 while there is none
  outcome,    \* what the builder handed back
  picked,     \* the record random.choice picked for it
  called,     \* the builders the request called, in order
  lastFail,   \* web: mode of the latest request answered with 500, "" if none
  app         \* app, trainer: the fields of VocabTrainerApp

vars ==
  <<prog, files, store, vocab, pc, req, direction, depth, attempts, frame, status,
    outcome, picked, called, lastFail, app>>

NoFrame == [i |-> 0, source |-> Absent, target |-> Absent, distractors |-> <<>>]
NoRequest == [mode |-> "", direction |-> ""]

\* the values of ?mode= and ?direction= tried; "gustar" is a category of
\* the interface that api_question has no branch for
Modes == Categories \cup {"gustar"}
Directions == {"es_en", "en_es", "es_ru", "ru_es", "mixed"}
\* the values of the mode argument tried; "ru-en" is not in the mapping
GuiModes == {"mixed", "es-en", "es-ru", "en-es", "ru-es", "ru-en"}

NoFiles == <<>>

Started(at, a) == [pc |-> at, app |-> a]

\* web_trainer.py is imported: an exception that left load_json would end it
ModuleStart(fs) ==
  {Started(IF \E c \in Categories : load_json(fs[c]).exc # "" THEN "exited" ELSE "idle",
           FreshApp)}

\* main of vocab_trainer_gui.py: it returns after the error box when
\* load_vocab raised; else it builds the VocabTrainerApp
\* VocabTrainerApp.__init__: the fields are set and next_question is called
\* with the mode "mixed"
VocabTrainerApp(v) ==
  {Started(IF out.kind = "hang" THEN "hung" ELSE "idle", next_question(FreshApp, out)) :
     out \in build_question(v, "mixed")}

main(fs) ==
  LET loaded == load_vocab(fs.vocab)
  IN  IF loaded.exc # "" THEN {Started("exited", FreshApp)}
      ELSE VocabTrainerApp(loaded.val)

\* a VocabTrainerApp is running
Trainer == prog \in {"app", "trainer"}

\* The program has started: the module-level load_json calls of
\* web_trainer.py are done, or main of vocab_trainer_gui.py has loaded
\* vocab.json and built the application, or has shown the error and
\* returned, or a VocabTrainerApp has been built on a list of its own.
Init ==
  /\ prog \in {"web", "gui", "app", "trainer"}
  /\ files \in (CASE prog = "web" -> WebFiles [] prog = "app" -> AppFiles [] OTHER -> {NoFiles})
  /\ store = (IF prog = "web" THEN [c \in Categories |-> load_json(files[c]).val]
              ELSE DefaultStore)
  /\ vocab \in (CASE prog = "gui" -> GuiVocabs
                  [] prog = "app" -> {load_vocab(files.vocab).val}
                  [] prog = "trainer" -> TrainerVocabs
                  [] OTHER -> {<<>>})
  /\ \E s \in (CASE prog = "web" -> ModuleStart(files)
                   [] prog = "app" -> main(files)
                   [] prog = "trainer" -> VocabTrainerApp(vocab)
                   [] OTHER -> {Started("idle", FreshApp)}) :
       pc = s.pc /\ app = s.app
  /\ req = NoRequest
  /\ direction = ""
  /\ depth = 0
  /\ attempts = 0
  /\ frame = NoFrame
  /\ status = 0
  /\ outcome = NoOutcome
  /\ picked = NoRecord
  /\ called = <<>>
  /\ lastFail = ""

\* ----------------------------------------------------------- api_question

make_future_question(st) == make_simple_mc_question(st["future"])
make_reflexive_question(st) == make_simple_mc_question(st["reflexive"])
make_pronouns_question(st) == make_simple_mc_question(st["pronouns"])
make_prepositions_question(st) == make_simple_mc_question(st["prepositions"])
make_comparisons_question(st) == make_simple_mc_question(st["comparisons"])

\* the if/elif chain with the vocabulary builder as its else branch
BuilderDefaultsToVocab(mode) ==
  CASE mode = "prepositions" -> "make_prepositions_question"
    [] mode = "preposition_contrast" -> "make_preposition_contrast_question"
    [] mode = "verbs" -> "make_verbs_question"
    [] mode = "future" -> "make_future_question"
    [] mode = "reflexive" -> "make_reflexive_question"
    [] mode = "context_vocab" -> "make_context_vocab_question"
    [] mode = "pronouns" -> "make_pronouns_question"
    [] mode = "comparisons" -> "make_comparisons_question"
    [] OTHER -> "make_vocab_question"

\* the if/elif chain on mode: the builder of a mode, "" for the else branch
Builder(mode) ==
  CASE mode = "vocab" -> "make_vocab_question"
    [] mode = "prepositions" -> "make_prepositions_question"
    [] mode = "preposition_contrast" -> "make_preposition_contrast_question"
    [] mode = "verbs" -> "make_verbs_question"
    [] mode = "future" -> "make_future_question"
    [] mode = "reflexive" -> "make_reflexive_question"
    [] mode = "context_vocab" -> "make_context_vocab_question"
    [] mode = "pronouns" -> "make_pronouns_question"
    [] mode = "comparisons" -> "make_comparisons_question"
    [] OTHER -> ""

\* what calling the builder of a cloze mode can give
Call(builder, st) ==
  CASE builder = "make_prepositions_question" -> make_prepositions_question(st)
    [] builder = "make_preposition_contrast_question" ->
         make_preposition_contrast_question(st["preposition_contrast"])
    [] builder = "make_verbs_question" -> make_verbs_question(st["verbs"])
    [] builder = "make_future_question" -> make_future_question(st)
    [] builder = "make_reflexive_question" -> make_reflexive_question(st)
    [] builder = "make_context_vocab_question" ->
         make_context_vocab_question(st["context_vocab"])
    [] builder = "make_pronouns_question" -> make_pronouns_question(st)
    [] OTHER -> make_comparisons_question(st)

\* the subclasses of Exception met here: what the builders raise, and the
\* IndexError of random.choice on an empty list
ExceptionClasses ==
  {NoUsableItems, CouldNotBuild, "KeyError", "OverflowError", "RecursionError",
   "IndexError"}

\* except ValueError
CatchesValueErrorOnly(exc) == exc = NoUsableItems

\* except Exception
CaughtByHandler(exc) == exc \in ExceptionClasses

\* the end of api_question: jsonify(q), or the except clause's 500; an
\* exception the clause does not catch leaves the handler
Respond(p) ==
  /\ outcome' = p.out
  /\ picked' = p.raw
  /\ called' = p.called
  /\ status' = IF p.out.kind = "question" THEN 200
               ELSE IF CaughtByHandler(p.out.exc) THEN 500 ELSE 0
  /\ pc' = IF p.out.kind = "raise" /\ ~CaughtByHandler(p.out.exc) THEN "crashed" ELSE "done"
  /\ lastFail' = IF p.out.kind = "raise" THEN req'.mode ELSE lastFail

\* GET /api/question?mode=m&direction=d, up to the call of make_vocab_question
ApiQuestion(m, d) ==
  /\ prog = "web"
  /\ pc = "idle"
  /\ m # "vocab" => d = "es_en"
  /\ req' = [mode |-> m, direction |-> d]
  /\ UNCHANGED <<app, prog, files, store, vocab, attempts, frame>>
  /\ IF Builder(m) = ""
     THEN /\ status' = 400
          /\ outcome' = NoOutcome
          /\ picked' = NoRecord
          /\ called' = <<>>
          /\ pc' = "done"
          /\ UNCHANGED <<direction, depth, lastFail>>
     ELSE IF Builder(m) = "make_vocab_question"
     THEN /\ pc' = "vocab"
          /\ direction' = d
          /\ depth' = 0
          /\ status' = 0
          /\ outcome' = NoOutcome
          /\ picked' = NoRecord
          /\ called' = <<>>
          /\ UNCHANGED lastFail
     ELSE /\ \E p \in Call(Builder(m), store) : Respond(p)
          /\ UNCHANGED <<direction, depth>>

\* one call of make_vocab_question: it returns, raises, or calls itself
\* with "es_en"; the call that would exceed the recursion limit raises
VocabCall ==
  /\ pc = "vocab"
  /\ UNCHANGED <<app, prog, files, vocab, attempts, frame, req>>
  /\ \E p \in make_vocab_question(store["vocab"], direction) :
       IF p.out.kind = "question"
       THEN /\ Respond(p)
            /\ store' \in {[store EXCEPT !["vocab"] = items] :
                             items \in ShuffleInPlace(store["vocab"], DistractPoolBinding)}
            /\ UNCHANGED <<direction, depth>>
       ELSE IF p.out.kind # "retry"
       THEN Respond(p) /\ UNCHANGED <<store, direction, depth>>
       ELSE IF depth = MaxDepth
       THEN Respond(Picked(p.raw, Raise("RecursionError"), p.called))
            /\ UNCHANGED <<store, direction, depth>>
       ELSE /\ depth' = depth + 1
            /\ direction' = "es_en"
            /\ UNCHANGED <<store, pc, status, outcome, picked, called, lastFail>>

\* ---------------------------------------------------------- build_question

\* return (or raise) from build_question
Return(entry, out) ==
  /\ outcome' = out
  /\ picked' = entry
  /\ pc' = "done"
  /\ frame' = NoFrame

\* build_question(vocab, mode=m) is called
BuildQuestion(m) ==
  /\ prog = "gui"
  /\ pc = "idle"
  /\ req' = [mode |-> m, direction |-> ""]
  /\ pc' = "for"
  /\ attempts' = 0
  /\ frame' = NoFrame
  /\ outcome' = NoOutcome
  /\ picked' = NoRecord
  /\ called' = <<"build_question">>
  /\ UNCHANGED <<app, prog, files, store, vocab, direction, depth, status, lastFail>>

\* One iteration of the for loop, up to the while loop: continue, the raise
\* after the last iteration, or the pick is accepted and the first
\* distractors are collected. The loop counter is dead once a pick is
\* accepted (the iteration ends in return), so it is dropped there.
BuildPick ==
  /\ pc = "for"
  /\ UNCHANGED <<app, prog, files, store, direction, depth, status, lastFail, req, called>>
  /\ \E i \in DOMAIN vocab : \E st \in choose_source_target(vocab[i], req.mode) :
       IF st = NonePair
       THEN /\ attempts' = attempts + 1
            /\ UNCHANGED vocab
            /\ IF attempts + 1 = MaxAttempts
               THEN Return(NoRecord, Raise(CouldNotBuild))
               ELSE UNCHANGED <<pc, frame, outcome, picked>>
       ELSE /\ attempts' = 0
            /\ vocab' \in ShuffleInPlace(vocab, CandidatesBinding)
            /\ \E cands \in Shuffles(Candidates(vocab, i, st.target)) :
                 LET d == FirstDistractors(cands, vocab[i][st.target], <<>>)
                 IN  IF Len(d) >= NumOptions - 1
                     THEN \E q \in BuiltQuestions(vocab[i], st, d) : Return(vocab[i], q)
                     ELSE /\ pc' = "fill"
                          /\ frame' = [i |-> i, source |-> st.source,
                                       target |-> st.target, distractors |-> d]
                          /\ UNCHANGED <<outcome, picked>>

\* One iteration of the while loop: random.choice(vocab)[target] raises
\* KeyError, is the correct answer (nothing changes), or is appended; the
\* append that fills the list is followed by the rest of the function.
FillStep ==
  /\ pc = "fill"
  /\ UNCHANGED <<app, prog, files, store, vocab, direction, depth, status, lastFail, req, called, attempts>>
  /\ \E j \in DOMAIN vocab :
       LET entry == vocab[frame.i]
           cand == vocab[j][frame.target]
           d == Append(frame.distractors, cand)
       IN  IF cand = Absent THEN Return(entry, Raise("KeyError"))
           ELSE IF cand = entry[frame.target] THEN UNCHANGED <<pc, frame, outcome, picked>>
           ELSE IF Len(d) >= NumOptions - 1
           THEN \E q \in BuiltQuestions(entry, [source |-> frame.source, target |-> frame.target], d) :
                  Return(entry, q)
           ELSE /\ frame' = [frame EXCEPT !.distractors = d]
                /\ UNCHANGED <<pc, outcome, picked>>

\* The response is out (web) or the caller has the tuple (gui): the
\* request's locals are gone and the next request can come.
Ready ==
  /\ pc = "done"
  /\ pc' = "idle"
  /\ req' = NoRequest
  /\ status' = 0
  /\ outcome' = NoOutcome
  /\ picked' = NoRecord
  /\ called' = <<>>
  /\ attempts' = 0
  /\ UNCHANGED <<app, prog, files, store, vocab, direction, depth, frame, lastFail>>

\* --------------------------------------------------------- VocabTrainerApp

\* The Next button, after the mode menu was set to m (or left at m):
\* next_question runs build_question to its end.
NextQuestion(m) ==
  /\ Trainer
  /\ pc = "idle"
  /\ LET outs == build_question(vocab, m)
     IN  \/ /\ \E out \in outs : out.kind = "hang"
            /\ app' = next_question(app, Hang)
            /\ pc' = "hung"
         \/ /\ app' \in {next_question(app, out) : out \in {o \in outs : o.kind # "hang"}}
            /\ pc' = "idle"
  /\ vocab' \in ShuffleInPlace(vocab, CandidatesBinding)
  /\ UNCHANGED <<prog, files, store, req, direction, depth, attempts, frame, status,
                 outcome, picked, called, lastFail>>

\* one of the four radio buttons is clicked
SelectOption(i) ==
  /\ Trainer
  /\ pc = "idle"
  /\ app' = [app EXCEPT !.selected_option = i]
  /\ UNCHANGED <<prog, files, store, vocab, pc, req, direction, depth, attempts, frame,
                 status, outcome, picked, called, lastFail>>

\* the Check Answer button is clicked; a disabled button runs no command
CheckAnswer ==
  /\ Trainer
  /\ pc = "idle"
  /\ app.check_button = "normal"
  /\ app.total < MaxChecks
  /\ app' = check_answer(app)
  /\ UNCHANGED <<prog, files, store, vocab, pc, req, direction, depth, attempts, frame,
                 status, outcome, picked, called, lastFail>>

\* ------------------------------------------------------------ specification

Next ==
  \/ \E m \in Modes, d \in Directions : ApiQuestion(m, d)
  \/ VocabCall
  \/ \E m \in GuiModes : BuildQuestion(m)
  \/ BuildPick
  \/ FillStep
  \/ Ready
  \/ \E m \in AppModes : NextQuestion(m)
  \/ \E i \in 0..(NumOptions - 1) : SelectOption(i)
  \/ CheckAnswer

Spec == Init /\ [][Next]_vars

\* ==================================================================== claims

Last(s) == s[Len(s)]

\* a web request has been answered with a question
WebQuestion == prog = "web" /\ pc = "done" /\ outcome.kind = "question"
\* build_question has returned its tuple
GuiQuestion == prog = "gui" /\ pc = "done" /\ outcome.kind = "question"

\* the indices a single-blank question marks correct
CorrectIndicesOf(q) == IF q.has_indices THEN q.correct_indices ELSE <<q.correct_index>>

SingleBlankBuilders ==
  {"make_simple_mc_question", "make_verbs_question", "make_context_vocab_question"}

\* C1: every single-blank question returned by make_simple_mc_question,
\* make_verbs_question or make_context_vocab_question marks at least one
\* index correct, every marked index i satisfies 0 <= i < len(options), no
\* index is marked twice, and correct_index is the first marked index.
C1_ValidIndices ==
  (WebQuestion /\ Last(called) \in SingleBlankBuilders) =>
    LET ci == CorrectIndicesOf(outcome)
    IN  /\ ci # <<>>
        /\ \A k \in DOMAIN ci : 0 <= ci[k] /\ ci[k] < Len(outcome.options)
        /\ \A k, l \in DOMAIN ci : k # l => ci[k] # ci[l]
        /\ outcome.correct_index = ci[1]

\* make_simple_mc_question answered from a list under 'correct_index' that
\* holds out-of-range, repeated and non-numeric values, and kept two indices
C1_Witness ==
  /\ WebQuestion
  /\ Last(called) = "make_simple_mc_question"
  /\ picked.ci.k = "list"
  /\ Len(outcome.correct_indices) = 2

\* the strings a cloze record declares correct are all among its options
DeclaredPresent(raw) ==
  CASE raw.correct.k = "str"  -> In(raw.correct.s, raw.options)
    [] raw.correct.k = "list" -> \A k \in DOMAIN raw.correct.l : In(raw.correct.l[k], raw.options)
    [] OTHER                  -> TRUE

\* the same for each usable entry of 'blanks'
BlanksDeclaredPresent(raw) ==
  \A k \in DOMAIN raw.blanks :
    LET b == raw.blanks[k]
    IN  (b.isdict /\ b.correct # Absent) => In(b.correct, BlankOptions(b, raw))

\* C2: no question is emitted for a cloze record whose declared correct
\* answer (a string, or any member of a list, or the 'correct' of one of its
\* blanks) is absent from the option pool it is declared for.
C2_AbsentAnswerRejected ==
  (WebQuestion /\ Head(called) # "make_vocab_question") =>
    IF outcome.has_blanks THEN BlanksDeclaredPresent(picked) ELSE DeclaredPresent(picked)

\* C3: a question that carries 'blanks' has as many blanks as its text has
\* blank markers, and each blank's correct_index is an index into that
\* blank's own options.
C3_BlanksMatchMarkers ==
  (WebQuestion /\ outcome.has_blanks) =>
    /\ Len(outcome.blanks) = CountBlanks(outcome.question)
    /\ \A k \in DOMAIN outcome.blanks :
         /\ 0 <= outcome.blanks[k].correct_index
         /\ outcome.blanks[k].correct_index < Len(outcome.blanks[k].options)

\* a record that declares 'blanks' whose number differs from the number of
\* blank markers of its sentence
MismatchedRecord(raw) == raw.blanks # <<>> /\ Len(raw.blanks) # CountBlanks(raw.sentence)

\* C4: in no draw is a question emitted from a multi-blank record whose
\* number of per-blank specs differs from the number of blank markers of
\* its sentence.
C4_MismatchNeverEmitted ==
  ~(WebQuestion /\ Head(called) = "make_preposition_contrast_question"
      /\ MismatchedRecord(picked))

\* C5: in every vocabulary question, of make_vocab_question and of
\* build_question, the correct answer occurs exactly once among the options
\* and correct_index is its position.
C5_AnswerOnce ==
  ((WebQuestion /\ Head(called) = "make_vocab_question") \/ GuiQuestion) =>
    /\ Count(outcome.options, outcome.answer) = 1
    /\ 0 <= outcome.correct_index
    /\ outcome.correct_index < Len(outcome.options)
    /\ outcome.options[outcome.correct_index + 1] = outcome.answer

\* build_question returned four options with the correct one not in front
C5_Witness ==
  /\ GuiQuestion
  /\ Len(outcome.options) = NumOptions
  /\ outcome.correct_index > 0
  /\ Count(outcome.options, outcome.answer) = 1

\* some pick of the while loop ends an iteration in another state
FillCanAdvance ==
  \E j \in DOMAIN vocab : vocab[j][frame.target] # vocab[frame.i][frame.target]

\* C6: every request ends after a bounded number of picks: the while loop
\* of build_question is never in a state no pick can take it out of, and
\* the retries of make_vocab_question stay within the nesting bound.
C6_NoEndlessLoop ==
  /\ pc = "fill" => FillCanAdvance
  /\ pc = "vocab" => depth <= MaxDepth
  /\ pc = "for" => attempts < MaxAttempts

\* the list of mode m holds no record that m's builder counts as usable
ZeroUsableWeb(m) ==
  CASE m = "vocab" -> SelectSeq(store[m], UsableVocab) = <<>>
    [] m = "verbs" -> SelectSeq(store[m], UsableVerb) = <<>>
    [] m = "preposition_contrast" ->
         SelectSeq(store[m], LAMBDA it : it.isdict /\ (TakesMultiPath(it) \/ UsableSimple(it))) = <<>>
    [] OTHER -> SelectSeq(store[m], UsableSimple) = <<>>

\* no entry of the vocabulary gives a source and a target under the mode
ZeroUsableGui ==
  \A i \in DOMAIN vocab :
    Len(get_available_languages(vocab[i])) < 2
      \/ (req.mode # "mixed" /\ ~(In(Mapping(req.mode).source, get_available_languages(vocab[i]))
                                  /\ In(Mapping(req.mode).target, get_available_languages(vocab[i]))))

HasBuildable(m, d) ==
  IF m = "vocab"
  THEN LET usable == SelectSeq(store[m], UsableVocab)
       IN  \E i \in DOMAIN usable : \E o \in VocabOf(usable, i, d) : o.kind = "question"
  ELSE m \in Categories /\ \E p \in Call(Builder(m), store) : p.out.kind = "question"

\* C8: a request is answered with an error only when its category holds no
\* record a question can be built from (or the mode is unknown): a
\* malformed record that is sampled is absorbed.
C8_MalformedAbsorbed ==
  (prog = "web" /\ pc = "done" /\ status = 500) => ~HasBuildable(req.mode, req.direction)

\* C9: a request whose mode is none of the implemented categories is
\* answered at once with status 400: no record is picked, no builder is
\* called, nothing is raised.
C9_UnknownMode ==
  (prog = "web" /\ req # NoRequest /\ req.mode \notin Categories) =>
    /\ pc = "done"
    /\ status = 400
    /\ called = <<>>
    /\ picked = NoRecord
    /\ outcome.kind = "none"

\* mode=gustar was answered with 400
C9_Witness == prog = "web" /\ pc = "done" /\ req.mode = "gustar" /\ status = 400

\* C10: api_question always ends in a response (a question with status
\* 200, or status 400, or status 500 for whatever the builder raised) and
\* no exception leaves it; after a category failed, a request for another
\* category, whose list is well formed, is answered with a question.
C10_AlwaysResponds ==
  /\ pc # "crashed"
  /\ (prog = "web" /\ pc = "done") =>
       /\ status \in {200, 400, 500}
       /\ status = 200 <=> outcome.kind = "question"
       /\ status = 500 <=> outcome.kind = "raise"
  /\ (prog = "web" /\ pc = "vocab") => depth <= MaxDepth
  /\ (prog = "web" /\ pc = "done" /\ lastFail \notin {"", req.mode}
        /\ req.mode \in Categories /\ store[req.mode] = DefaultStore[req.mode]) =>
       status = 200

\* a question is served for one category after another category failed
C10_Witness ==
  /\ prog = "web"
  /\ pc = "done"
  /\ lastFail \notin {"", req.mode}
  /\ status = 200

\* the four fixed directions of make_vocab_question and of build_question
FixedDirections == {"es_en", "en_es", "es_ru", "ru_es"}
FixedGuiModes == {"es-en", "es-ru", "en-es", "ru-es"}

\* C11: a vocabulary request with a fixed direction whose sampled record
\* has at least 2 available languages ends in a question with a non-empty
\* prompt term and a non-empty answer, also when the record lacks a language
\* of the requested direction; build_question gives up only when no entry
\* has 2 available languages.
C11_SupportedDirectionChosen ==
  /\ (prog = "web" /\ pc = "done" /\ req.mode = "vocab"
        /\ req.direction \in FixedDirections
        /\ picked.isdict /\ Len(get_available_languages(picked)) >= 2) =>
       /\ outcome.kind = "question"
       /\ outcome.answer \notin {"", Absent}
       /\ Last(outcome.question) \notin {"", Absent}
  /\ (prog = "gui" /\ pc = "done" /\ req.mode \in FixedGuiModes
        /\ outcome.kind = "raise" /\ outcome.exc = CouldNotBuild) =>
       \A i \in DOMAIN vocab : Len(get_available_languages(vocab[i])) < 2

\* every element of 'blanks' is a dictionary {options, correct} whose
\* correct string is among its options, with no integer 'correct_index'
WellFormedSpecs(raw) ==
  /\ raw.blanks # <<>>
  /\ \A k \in DOMAIN raw.blanks :
       LET b == raw.blanks[k]
       IN  /\ b.isdict
           /\ ~(b.ci.k = "scalar" /\ b.ci.v.k = "int")
           /\ (IF b.options # <<>> THEN b.options ELSE raw.options) # <<>>
           /\ In(b.correct, IF b.options # <<>> THEN b.options ELSE raw.options)

C13_NeverSingleBlank ==
  ~(WebQuestion /\ Head(called) = "make_preposition_contrast_question"
      /\ ~outcome.has_blanks /\ picked.blanks # <<>>)

\* C14: a comparisons question built from a record whose 'correct' is a
\* list marks one index per distinct string of the list, and every string
\* of the list is the option at one of the marked indices.
C14_EveryCorrectMapped ==
  (WebQuestion /\ req.mode = "comparisons" /\ picked.correct.k = "list") =>
    /\ Len(outcome.correct_indices) = Cardinality(Range(picked.correct.l))
    /\ \A c \in Range(picked.correct.l) :
         \E k \in DOMAIN outcome.correct_indices :
           /\ outcome.correct_indices[k] < Len(outcome.options)
           /\ outcome.options[outcome.correct_indices[k] + 1] = c

\* no string occurs twice in the list
NoDup(s) == \A i, j \in DOMAIN s : i # j => s[i] # s[j]

\* C15: the options of every emitted question, and the options of each of
\* its blanks, hold no string twice.
C15_NoDuplicateOptions ==
  (WebQuestion \/ GuiQuestion) =>
    /\ NoDup(outcome.options)
    /\ \A k \in DOMAIN outcome.blanks : NoDup(outcome.blanks[k].options)

\* C16: every vocabulary question, of make_vocab_question and of
\* build_question, has exactly NumOptions options.
C16_ExactlyKOptions ==
  ((WebQuestion /\ Head(called) = "make_vocab_question") \/ GuiQuestion) =>
    Len(outcome.options) = NumOptions

\* the fields the category of mode m requires of a record, present and
\* non-empty
RequiredFields(m, raw) ==
  CASE m = "vocab" -> Truthy(raw.es) /\ (Truthy(raw.en) \/ Truthy(raw.ru))
    [] m = "verbs" -> (raw.question # <<>> \/ raw.infinitive # "") /\ raw.options # <<>>
    [] m = "preposition_contrast" ->
         /\ raw.sentence # <<>>
         /\ \/ raw.options # <<>>
            \/ \E k \in DOMAIN raw.blanks : raw.blanks[k].isdict /\ raw.blanks[k].options # <<>>
    [] OTHER -> raw.sentence # <<>> /\ raw.options # <<>>

\* C17: every emitted question was built from an entry that is a
\* dictionary and has the required fields of its category non-empty.
C17_UnfitNeverUsed ==
  /\ WebQuestion => (picked.isdict /\ RequiredFields(req.mode, picked))
  /\ GuiQuestion => (picked.isdict /\ Len(get_available_languages(picked)) >= 2)

\* the file of some category held no list when web_trainer.py started
SomeBadFile == \E c \in Categories : files[c].kind \in BadKinds

C19_StoreNeverChanges ==
  /\ prog = "web" => \A c \in Categories : store[c] = load_json(files[c]).val
  /\ (prog = "app" /\ pc # "exited") => vocab = load_vocab(files.vocab).val

\* make_vocab_question shuffled a pool of two distractors and the three
\* options, and the vocabulary list is as it was loaded
C19_Witness ==
  /\ WebQuestion
  /\ Head(called) = "make_vocab_question"
  /\ Len(outcome.options) = 3
  /\ outcome.correct_index > 0
  /\ store["vocab"] = files["vocab"].items
  /\ Len(store["vocab"]) >= 2

\* C20: the question make_vocab_question returned is the only one it can
\* return for the same store, direction and draws of the random source (the
\* same pick, the same two shuffle orders), whatever order list(set) gives.
C20_SameSeedSameQuestion ==
  (WebQuestion /\ Head(called) = "make_vocab_question") =>
    LET usable == SelectSeq(store["vocab"], UsableVocab)
        i == outcome.draws[1]
        pool == DistractPool(usable, i, DirectionFields(direction).target, outcome.answer)
    IN  \A listed \in HashOrders(pool) :
          VocabRun(usable, i, direction, listed, outcome.draws[2], outcome.draws[3]) = outcome

\* the pool has between 3 and 5 candidates
PoolSizeOk(options) == 3 <= Len(options) /\ Len(options) <= 5

\* C21: the option pool of every emitted cloze question, and of each blank
\* of a multi-blank question, has between 3 and 5 candidates.
C21_PoolSize ==
  (WebQuestion /\ Head(called) # "make_vocab_question") =>
    IF outcome.has_blanks
    THEN \A k \in DOMAIN outcome.blanks : PoolSizeOk(outcome.blanks[k].options)
    ELSE PoolSizeOk(outcome.options)

\* the record or blank spec carries a numeric 'correct_index'
HasNumericIndex(ci) == ci.k = "scalar" /\ ci.v.k \in {"int", "float"}

\* C22: when a record, or a blank spec, carries a 'correct' string that is
\* among its options and also a numeric 'correct_index', the emitted index
\* is the position of the 'correct' string, in make_simple_mc_question and
\* in the multi-blank path alike.
C22_CorrectStringFirst ==
  /\ (WebQuestion /\ Last(called) = "make_simple_mc_question"
        /\ picked.correct.k = "str" /\ In(picked.correct.s, picked.options)
        /\ HasNumericIndex(picked.ci)) =>
       outcome.correct_indices = <<Index(picked.options, picked.correct.s)>>
  /\ (WebQuestion /\ outcome.has_blanks /\ Len(outcome.blanks) = Len(picked.blanks)) =>
       \A k \in DOMAIN picked.blanks :
         LET b == picked.blanks[k]
             opts == outcome.blanks[k].options
         IN  (b.isdict /\ In(b.correct, opts) /\ HasNumericIndex(b.ci)) =>
               outcome.blanks[k].correct_index = Index(opts, b.correct)

\* C23: build_question called with a mode that is neither 'mixed' nor one
\* of the four fixed directions does not give up when some entry of the
\* vocabulary has 2 available languages.
C23_UnknownModeIsMixed ==
  ~(/\ prog = "gui"
    /\ pc = "done"
    /\ req.mode \notin AppModes
    /\ outcome.kind = "raise"
    /\ outcome.exc = CouldNotBuild
    /\ \E i \in DOMAIN vocab : Len(get_available_languages(vocab[i])) >= 2)

\* C24: in the desktop trainer, whatever Next, radio and Check clicks came:
\* 0 <= score <= total; the displayed question had at most one answer
\* accepted, and the Check button is disabled from then until the next
\* question is shown; the accepted answer raised score by 1 exactly when its
\* index was correct_index; and correct_index is an index into
\* current_options whenever there are options to check against.
C24_ScoreKeeping ==
  Trainer =>
    /\ 0 <= app.score
    /\ app.score <= app.total
    /\ app.checks <= 1
    /\ app.checks = 1 <=> app.check_button = "disabled"
    /\ app.checks = 1 =>
         /\ 0 <= app.last_idx
         /\ app.last_idx < Len(app.current_options)
         /\ app.last_gain = 1 <=> app.last_idx = app.correct_index
    /\ app.current_options # <<>> =>
         (0 <= app.correct_index /\ app.correct_index < Len(app.current_options))

\* two questions were answered, one of them correctly, a next_question
\* call could not build a question, and the Check button is disabled after
\* the second answer
C24_Witness ==
  /\ Trainer
  /\ app.failed
  /\ app.total = 2
  /\ app.score = 1
  /\ app.checks = 1
  /\ app.check_button = "disabled"

=============================================================================
